---- MODULE Spec2Model ----
(***************************************************************************)
(* A model of pydna/design.py: primer_design (the Tm-targeted length       *)
(* search and its three modes) and assembly_fragments (primer tailing).    *)
(* Sequences are TLA+ sequences of one-letter strings; Tm values are       *)
(* integers.                                                               *)
(***************************************************************************)
EXTENDS Integers, Sequences, FiniteSets, TLC

\* ------------------------------------------------------------------ bounds
MaxTemplate == 4    \* longest template given to primer_design
MaxLimit == 2       \* largest value of the limit argument
MaxTm == 6          \* largest target_tm the caller passes
MaxFrags == 4       \* longest fragment list given to assembly_fragments
MaxFragLen == 2     \* longest fragment
MaxLink == 1        \* largest maxlink argument
MaxOverlap == 2     \* largest overlap argument
FootLen == 2        \* longest primer of an input Amplicon

\* the growth loop is unbounded in the code; the model stops it here
LengthCap == MaxTemplate + 2

\* ------------------------------------------------------- sequence helpers
None == <<"None">>

Min(a, b) == IF a < b THEN a ELSE b
Max(a, b) == IF a > b THEN a ELSE b
Abs(x) == IF x < 0 THEN -x ELSE x

\* str.upper()
UpperBase(b) ==
    CASE b = "a" -> "A" [] b = "c" -> "C" [] b = "g" -> "G" [] b = "t" -> "T"
      [] OTHER -> b
Upper(s) == [k \in 1..Len(s) |-> UpperBase(s[k])]

\* the complement of one base, case kept
Complement(b) ==
    CASE b = "a" -> "t" [] b = "t" -> "a" [] b = "c" -> "g" [] b = "g" -> "c"
      [] b = "A" -> "T" [] b = "T" -> "A" [] b = "C" -> "G" [] b = "G" -> "C"
      [] OTHER -> b
\* seq.rc(): the reverse complement
rc(s) == [k \in 1..Len(s) |-> Complement(s[Len(s) + 1 - k])]

\* Python s[:n] for n >= 0: the slice is clamped to the string
Prefix(s, n) == SubSeq(s, 1, Min(n, Len(s)))
\* Python s[n:] for n >= 0
From(s, n) == IF n >= Len(s) THEN <<>> ELSE SubSeq(s, n + 1, Len(s))
\* Python s[-n:] for n >= 0: s[-0:] is the whole string
LastN(s, n) == IF n = 0 \/ n >= Len(s) THEN s ELSE SubSeq(s, Len(s) - n + 1, Len(s))
\* Python s[:-1]
DropLast(s) == IF Len(s) = 0 THEN <<>> ELSE SubSeq(s, 1, Len(s) - 1)

\* the code point order of the letters, as Python compares strings
Ord(b) ==
    CASE b = "A" -> 65 [] b = "C" -> 67 [] b = "G" -> 71 [] b = "T" -> 84
      [] b = "a" -> 97 [] b = "c" -> 99 [] b = "g" -> 103 [] b = "t" -> 116
      [] OTHER -> 0
RECURSIVE StrLess(_, _)
StrLess(x, y) ==
    IF Len(y) = 0 THEN FALSE
    ELSE IF Len(x) = 0 THEN TRUE
    ELSE IF Ord(x[1]) # Ord(y[1]) THEN Ord(x[1]) < Ord(y[1])
    ELSE StrLess(Tail(x), Tail(y))

\* all sequences over S of length lo..hi
SeqsOf(S, lo, hi) == UNION {[1..n -> S] : n \in lo..hi}

\* --------------------------------------------------- the Tm formula (input)
\* formula(str, primerc=, saltc=): a pluggable estimator, case-insensitive,
\* non-decreasing in the length of the string and in both concentrations.
FormulaDefaults == [primerc |-> 1, saltc |-> 1]
BaseWeight(b) ==
    CASE Upper(<<b>>)[1] \in {"A", "T"} -> 1
      [] Upper(<<b>>)[1] \in {"C", "G"} -> 2
      [] OTHER -> 0
RECURSIVE BaseTm(_)
BaseTm(s) == IF Len(s) = 0 THEN 0 ELSE BaseWeight(s[1]) + BaseTm(Tail(s))
formula(s, primerc, saltc) == BaseTm(s) + primerc + saltc
formula1(s) == formula(s, FormulaDefaults.primerc, FormulaDefaults.saltc)

\* ------------------------------------------- Anneal (external collaborator)
\* Anneal(primers, template, limit=13): a primer anneals where at least
\* `limit` bases of its 3' end match the strand; the footprint is the longest
\* matching stretch.  The default limit is scaled to the model's templates.
AnnealDefaultLimit == 1
BaseMatch(x, y) == UpperBase(x) = UpperBase(y)
MatchLen(primer, strand, e) ==
    LET ks == {k \in 0..Min(Len(primer), e) :
                  \A j \in 0..(k - 1) : BaseMatch(primer[Len(primer) - j], strand[e - j])}
    IN  CHOOSE k \in ks : \A m \in ks : m <= k
\* the primers of `primers` annealing to `strand`, one entry per site
Annealing(primers, strand, lim) ==
    {[primer |-> q, position |-> e,
      footprint |-> SubSeq(strand, e - MatchLen(q, strand, e) + 1, e)] :
        <<q, e>> \in {x \in primers \X (1..Len(strand)) :
                          MatchLen(x[1], strand, x[2]) >= lim}}
forward_primers(primers, tmpl, lim) == Annealing(primers, tmpl, lim)
reverse_primers(primers, tmpl, lim) == Annealing(primers, rc(tmpl), lim)
\* Anneal(...).products: one amplicon per forward site lying before a reverse site
AnnealProducts(primers, tmpl, lim) ==
    {[forward_primer |-> x[1].primer, reverse_primer |-> x[2].primer,
      seq |-> x[1].primer
              \o SubSeq(tmpl, x[1].position + 1, Len(tmpl) - x[2].position)
              \o rc(x[2].primer)] :
        x \in {y \in forward_primers(primers, tmpl, lim)
                       \X reverse_primers(primers, tmpl, lim) :
                   y[1].position <= Len(tmpl) - y[2].position}}

\* ------------------------------------------------------------ primer_design
VARIABLES
    pc,          \* where primer_design is: start, design, returned, anneal, done, raised
    template,    \* the template argument
    fp, rp,      \* the local variables fp and rp (None or a primer sequence)
    target_tm,   \* the local variable target_tm (reassigned on lines 166, 171, 177)
    fprimerc, rprimerc, saltc, limit,
    args,        \* the arguments fp, rp and target_tm as the caller passed them
    footprint,   \* the footprint of the given primer (lines 165/170)
    site,        \* the call site of the running design(): the line that called it
    d,           \* the frame of the inner design(): target_tm, template, length, p, tmp, ps, tmps, ret
    calls,       \* every design() call that has returned: target_tm, template, ret
    anneals,     \* the number of _Anneal calls made so far
    products,    \* ampl.products (line 183)
    prod,        \* the returned amplicon
    err          \* the exception raised, or "none"

dvars == <<pc, template, fp, rp, target_tm, fprimerc, rprimerc, saltc, limit,
           args, footprint, site, d, calls, anneals, products, prod, err>>

VARIABLES
    apc,         \* where assembly_fragments is: check, copy, edges, loop, done, raised
    heap,        \* the objects: heap[id] is a fragment (Amplicon or Dseqrecord)
    caller,      \* the list the caller passed: object ids, in order
    f,           \* the local list f: object ids
    overlap, maxlink,
    i,           \* the loop index of line 625
    empty,       \* the id of the object made on line 617 (0 before)
    tail_length, \* line 623
    result,      \* the returned list
    aerr         \* the exception raised, or "none"

avars == <<apc, heap, caller, f, overlap, maxlink, i, empty, tail_length, result, aerr>>
vars == <<dvars, avars>>

TemplateBases == {"a", "c"}
Templates == SeqsOf(TemplateBases, 1, MaxTemplate)
GivenForward == {<<"a", "c">>, <<"G", "a">>}
GivenReverse == {<<"t", "g">>, <<"C", "t">>}
Concentrations == {1, 2}
NoFrame == [target_tm |-> 0, template |-> <<>>, length |-> 0, p |-> <<>>, tmp |-> 0,
            ps |-> <<>>, tmps |-> 0, ret |-> <<>>]

DesignInit ==
    /\ pc = "start"
    /\ template \in Templates
    /\ fp \in {None} \cup GivenForward
    /\ rp \in {None} \cup GivenReverse
    /\ target_tm \in 0..MaxTm
    /\ fprimerc \in Concentrations
    /\ rprimerc \in Concentrations
    /\ saltc \in Concentrations
    /\ limit \in 1..MaxLimit
    /\ args = [fp |-> fp, rp |-> rp, target_tm |-> target_tm]
    /\ footprint = <<>>
    /\ site = 0
    /\ d = NoFrame
    /\ calls = <<>>
    /\ anneals = 0
    /\ products = {}
    /\ prod = None
    /\ err = "none"

\* design(target_tm, template), lines 152-154: the frame before the loop
Frame(t, src) ==
    [target_tm |-> t, template |-> src, length |-> limit, p |-> Prefix(src, limit),
     tmp |-> 0, ps |-> <<>>, tmps |-> 0, ret |-> <<>>]

\* lines 159-162: ps, tmps and the returned string
\* min((abs(target_tm-tmp), p), (abs(target_tm-tmps), ps))[1] compares the pairs
\* by the difference first and by the strings next
MinPair(d1, s1, d2, s2) ==
    IF d2 < d1 \/ (d2 = d1 /\ StrLess(s2, s1)) THEN s2 ELSE s1
Returned(fr) ==
    LET ps == DropLast(fr.p)
        tmps == formula1(Upper(ps))
    IN  [fr EXCEPT !.ps = ps, !.tmps = tmps,
                   !.ret = MinPair(Abs(fr.target_tm - fr.tmp), fr.p,
                                   Abs(fr.target_tm - tmps), ps)]

\* a loop body that steps two bases at a time
GrowSkipping(fr) ==
    LET p == Prefix(fr.template, fr.length + 2)
    IN  [fr EXCEPT !.length = fr.length + 2, !.p = p, !.tmp = formula1(Upper(p))]
\* lines 156-158: the body of the growth loop
Grow(fr) ==
    LET p == Prefix(fr.template, fr.length + 1)
    IN  [fr EXCEPT !.length = fr.length + 1, !.p = p, !.tmp = formula1(Upper(p))]

\* a dispatch that looks at fp alone
ForwardOnlyIgnoringRp == fp # None
\* line 164: if fp and not rp
ForwardOnly == fp # None /\ rp = None
\* line 169: elif not fp and rp
ReverseOnly == fp = None /\ rp # None
\* line 174: elif not fp and not rp
NoPrimer == fp = None /\ rp = None

\* a reverse search that keeps the target it was called with
KeptTarget(q) == target_tm
\* line 177: the Tm of the designed forward primer, the target of the reverse search
ForwardTm(q) == formula(q, fprimerc, saltc)

\* lines 164-181: the dispatch on the primers given
GivenForwardPrimer ==
    /\ pc = "start" /\ ForwardOnly
    /\ anneals' = anneals + 1
    /\ LET found == forward_primers({fp}, template, AnnealDefaultLimit)
       IN  IF found = {}
           THEN /\ pc' = "raised" /\ err' = "IndexError"
                /\ UNCHANGED <<target_tm, footprint, site, d>>
           ELSE \E x \in found :
                /\ footprint' = x.footprint
                /\ target_tm' = formula(x.footprint, fprimerc, saltc)
                /\ d' = Frame(target_tm', rc(template))
                /\ site' = 168
                /\ pc' = "design"
                /\ err' = err
    /\ UNCHANGED <<avars, template, fp, rp, fprimerc, rprimerc, saltc, limit, args, calls,
                   products, prod>>

GivenReversePrimer ==
    /\ pc = "start" /\ ReverseOnly
    /\ anneals' = anneals + 1
    /\ LET found == reverse_primers({rp}, template, AnnealDefaultLimit)
       IN  IF found = {}
           THEN /\ pc' = "raised" /\ err' = "IndexError"
                /\ UNCHANGED <<target_tm, footprint, site, d>>
           ELSE \E x \in found :
                /\ footprint' = x.footprint
                /\ target_tm' = formula(x.footprint, rprimerc, saltc)
                /\ d' = Frame(target_tm', template)
                /\ site' = 173
                /\ pc' = "design"
                /\ err' = err
    /\ UNCHANGED <<avars, template, fp, rp, fprimerc, rprimerc, saltc, limit, args, calls,
                   products, prod>>

NoPrimerGiven ==
    /\ pc = "start" /\ NoPrimer
    /\ d' = Frame(target_tm, template)
    /\ site' = 176
    /\ pc' = "design"
    /\ UNCHANGED <<avars, template, fp, rp, target_tm, fprimerc, rprimerc, saltc, limit, args,
                   footprint, calls, anneals, products, prod, err>>

OverSpecified == "Specify maximum one of the two primers."
BothPrimersGiven ==
    /\ pc = "start" /\ ~ForwardOnly /\ ~ReverseOnly /\ ~NoPrimer
    /\ pc' = "raised"
    /\ err' = OverSpecified
    /\ UNCHANGED <<avars, template, fp, rp, target_tm, fprimerc, rprimerc, saltc, limit, args,
                   footprint, site, d, calls, anneals, products, prod>>

\* lines 155-158: one turn of the growth loop
DesignGrow ==
    /\ pc = "design"
    /\ d.tmp < d.target_tm
    /\ d.length < LengthCap
    /\ d' = Grow(d)
    /\ UNCHANGED <<avars, pc, template, fp, rp, target_tm, fprimerc, rprimerc, saltc, limit,
                   args, footprint, site, calls, anneals, products, prod, err>>

\* lines 159-162: the loop has ended, design() returns
DesignReturn ==
    /\ pc = "design"
    /\ ~(d.tmp < d.target_tm)
    /\ d' = Returned(d)
    /\ calls' = Append(calls, [target_tm |-> d.target_tm, template |-> d.template,
                               ret |-> d'.ret])
    /\ pc' = "returned"
    /\ UNCHANGED <<avars, template, fp, rp, target_tm, fprimerc, rprimerc, saltc, limit,
                   args, footprint, site, anneals, products, prod, err>>

\* lines 168, 173, 176-179: the caller takes the string design() returned
TakePrimer ==
    /\ pc = "returned"
    /\ CASE site = 168 -> /\ rp' = d.ret /\ pc' = "anneal"
                           /\ UNCHANGED <<fp, target_tm, d, site>>
         [] site = 173 -> /\ fp' = d.ret /\ pc' = "anneal"
                           /\ UNCHANGED <<rp, target_tm, d, site>>
         [] site = 176 -> /\ fp' = d.ret
                           /\ target_tm' = ForwardTm(fp')
                           /\ d' = Frame(target_tm', rc(template))
                           /\ site' = 179
                           /\ pc' = "design"
                           /\ rp' = rp
         [] site = 179 -> /\ rp' = d.ret /\ pc' = "anneal"
                           /\ UNCHANGED <<fp, target_tm, d, site>>
    /\ UNCHANGED <<avars, template, fprimerc, rprimerc, saltc, limit, args, footprint, calls,
                   anneals, products, prod, err>>

\* lines 183-207: anneal the pair and return the first product
AnnealPair ==
    /\ pc = "anneal"
    /\ anneals' = anneals + 1
    /\ products' = AnnealProducts({fp, rp}, template, limit)
    /\ IF products' = {}
       THEN /\ pc' = "raised" /\ err' = "IndexError" /\ prod' = prod
       ELSE /\ \E x \in products' :
                prod' = [x EXCEPT !.forward_primer = [seq |-> @, concentration |-> fprimerc],
                                  !.reverse_primer = [seq |-> @, concentration |-> rprimerc]]
            /\ pc' = "done" /\ err' = err
    /\ UNCHANGED <<avars, template, fp, rp, target_tm, fprimerc, rprimerc, saltc, limit, args,
                   footprint, site, d, calls>>

DesignNext ==
    \/ GivenForwardPrimer
    \/ GivenReversePrimer
    \/ NoPrimerGiven
    \/ BothPrimersGiven
    \/ DesignGrow
    \/ DesignReturn
    \/ TakePrimer
    \/ AnnealPair


\* ------------------------------------------------------- assembly_fragments
\* a fixed base sequence the input fragments are cut from, so that the
\* fragments of one input differ from each other
GenomeBase(k) == <<"c", "t", "g", "a">>[(((k * k) \div 3 + k) % 4) + 1]
Genome(from, n) == [k \in 1..n |-> GenomeBase(from + k)]

\* an Amplicon over the sequence s: primers at both ends, no tails yet
Amplicon(s) ==
    [amp |-> TRUE, seq |-> s, template |-> s,
     forward_primer |-> Prefix(s, FootLen), reverse_primer |-> Prefix(rc(s), FootLen),
     pos |-> 0]
\* a Dseqrecord: no template, no primers
Dseqrecord(s) ==
    [amp |-> FALSE, seq |-> s, template |-> None,
     forward_primer |-> None, reverse_primer |-> None, pos |-> 0]
Fragment(k, n, amp) ==
    IF amp THEN Amplicon(Genome((k - 1) * MaxFragLen, n))
    ELSE Dseqrecord(Genome((k - 1) * MaxFragLen, n))

\* hasattr(x, "template")
hasTemplate(h, id) == h[id].amp
\* len(x)
len(h, id) == Len(h[id].seq)

AsmInit ==
    /\ apc = "check"
    /\ \E n \in 1..MaxFrags :
         \E lens \in [1..n -> 1..MaxFragLen], amps \in [1..n -> BOOLEAN] :
            /\ heap = [k \in 1..n |-> Fragment(k, lens[k], amps[k])]
            \* the documented circular trick passes the first object again at the end
            /\ caller \in {[k \in 1..n |-> k]}
                            \cup {[k \in 1..(n + 1) |-> IF k = n + 1 THEN 1 ELSE k] :
                                      m \in {n} \cap (2..(MaxFrags - 1))}
    /\ f = caller
    /\ overlap \in 0..MaxOverlap
    /\ maxlink \in 0..MaxLink
    /\ i = 0
    /\ empty = 0
    /\ tail_length = 0
    /\ result = <<>>
    /\ aerr = "none"

SanityMessage == "Every second fragment larger than maxlink has to be an Amplicon object"
\* a check that looks at every fragment, short ones too
nfUnfiltered(h, lst, ml) == lst
\* lines 589-591: the sanity check of the arguments
nf(h, lst, ml) == SelectSeq(lst, LAMBDA id : len(h, id) > ml)
SanityOk(h, lst, ml) ==
    LET l == nf(h, lst, ml)
    IN  \A k \in 1..(Len(l) - 1) : hasTemplate(h, l[k]) \/ hasTemplate(h, l[k + 1])
SanityCheck ==
    /\ apc = "check"
    /\ IF SanityOk(heap, f, maxlink)
       THEN apc' = "copy" /\ aerr' = aerr
       ELSE /\ apc' = "raised"
            /\ aerr' = SanityMessage
    /\ UNCHANGED <<dvars, heap, caller, f, overlap, maxlink, i, empty, tail_length, result>>

\* no copy taken: the list keeps the caller's objects
CopyNothing ==
    /\ apc = "copy"
    /\ apc' = "edges"
    /\ UNCHANGED <<dvars, heap, f, caller, overlap, maxlink, i, empty, tail_length, result, aerr>>

\* line 597: f = [copy.copy(f) for f in f]; the copy at position k remembers k
CopyOf(h, lst) == [k \in 1..Len(lst) |-> [h[lst[k]] EXCEPT !.pos = k]]
CopyFragments ==
    /\ apc = "copy"
    /\ heap' = heap \o CopyOf(heap, f)
    /\ f' = [k \in 1..Len(f) |-> Len(heap) + k]
    /\ apc' = "edges"
    /\ UNCHANGED <<dvars, caller, overlap, maxlink, i, empty, tail_length, result, aerr>>

\* the tail put behind the primer instead of in front of it
TailForwardBehind(h, id, s) == [h EXCEPT ![id].forward_primer = @ \o s]
\* x.forward_primer = s + x.forward_primer
TailForward(h, id, s) == [h EXCEPT ![id].forward_primer = s \o @]
\* x.reverse_primer = s + x.reverse_primer
TailReverse(h, id, s) == [h EXCEPT ![id].reverse_primer = s \o @]

\* lines 599-608: the first fragment is absorbed when it is short
\* the outcome is the heap, the list and the exception (or "none")
AbsorbFirst(h, lst, ml) ==
    IF len(h, lst[1]) <= ml
    THEN IF Len(lst) < 2 THEN [heap |-> h, f |-> lst, err |-> "IndexError"]
         ELSE IF ~hasTemplate(h, lst[2]) THEN [heap |-> h, f |-> lst, err |-> "AttributeError"]
         ELSE [heap |-> TailForward(h, lst[2], h[lst[1]].seq), f |-> Tail(lst), err |-> "none"]
    ELSE [heap |-> h, f |-> lst, err |-> "none"]
\* the last fragment absorbed, the list cut at the wrong end
AbsorbLastCutFront(h, lst, ml, last_fragment_length) ==
    IF last_fragment_length <= ml /\ Len(lst) >= 2 /\ hasTemplate(h, lst[Len(lst) - 1])
    THEN [heap |-> TailReverse(h, lst[Len(lst) - 1], rc(h[lst[Len(lst)]].seq)),
          f |-> Tail(lst), err |-> "none"]
    ELSE [heap |-> h, f |-> lst, err |-> "none"]
\* lines 610-615: the last fragment is absorbed when it was short (its length
\* was taken on line 600, before the first fragment was dropped)
AbsorbLast(h, lst, ml, last_fragment_length) ==
    IF last_fragment_length <= ml
    THEN IF Len(lst) < 2 THEN [heap |-> h, f |-> lst, err |-> "IndexError"]
         ELSE IF ~hasTemplate(h, lst[Len(lst) - 1])
              THEN [heap |-> h, f |-> lst, err |-> "AttributeError"]
         ELSE [heap |-> TailReverse(h, lst[Len(lst) - 1], rc(h[lst[Len(lst)]].seq)),
               f |-> SubSeq(lst, 1, Len(lst) - 1), err |-> "none"]
    ELSE [heap |-> h, f |-> lst, err |-> "none"]

\* math.ceil(overlap/2)
Ceil2(n) == (n + 1) \div 2

\* lines 599-623
AbsorbEdges ==
    /\ apc = "edges"
    /\ LET a == AbsorbFirst(heap, f, maxlink)
           b == AbsorbLast(a.heap, a.f, maxlink, len(heap, f[Len(f)]))
       IN  IF a.err # "none"
           THEN /\ apc' = "raised" /\ aerr' = a.err
                /\ UNCHANGED <<heap, f, empty, tail_length>>
           ELSE IF b.err # "none"
           THEN /\ apc' = "raised" /\ aerr' = b.err
                /\ heap' = a.heap /\ f' = a.f
                /\ UNCHANGED <<empty, tail_length>>
           ELSE /\ heap' = Append(b.heap, Dseqrecord(<<>>))
                /\ empty' = Len(b.heap) + 1
                /\ f' = b.f
                /\ tail_length' = Ceil2(overlap)
                /\ apc' = "loop"
                /\ aerr' = aerr
    /\ UNCHANGED <<dvars, caller, overlap, maxlink, i, result>>

\* lines 639-660: secnd is short and goes into the primers next to it
Linker(h, first, secnd, third, ov, tl) ==
    LET n == len(h, secnd)
        s == h[secnd].seq
    IN  IF hasTemplate(h, first) /\ hasTemplate(h, third)
        THEN LET h1 == TailReverse(h, first, From(rc(s), n \div 2))
                 h2 == TailForward(h1, third, From(s, n \div 2))
                 h3 == TailReverse(h2, first,
                           LastN(rc(h2[third].seq) \o Prefix(rc(s), n \div 2), tl))
             IN  TailForward(h3, third, LastN(h3[first].seq \o Prefix(s, n \div 2), tl))
        ELSE IF hasTemplate(h, first)
        THEN TailReverse(TailReverse(h, first, rc(s)), first, rc(Prefix(h[third].seq, ov)))
        ELSE IF hasTemplate(h, third)
        THEN TailForward(TailForward(h, third, s), third, LastN(h[first].seq, ov))
        ELSE h

\* a direct junction that tails the forward primer of first, not of secnd
DirectWrongPrimer(h, first, secnd, ov, tl) ==
    IF hasTemplate(h, first) /\ hasTemplate(h, secnd)
    THEN LET h1 == TailForward(h, first, LastN(h[first].seq, tl))
         IN  TailReverse(h1, first, rc(Prefix(h1[secnd].seq, tl)))
    ELSE IF hasTemplate(h, first)
    THEN TailReverse(h, first, rc(Prefix(h[secnd].seq, ov)))
    ELSE IF hasTemplate(h, secnd)
    THEN TailForward(h, secnd, LastN(h[first].seq, ov))
    ELSE h

\* lines 664-678: secnd is larger than maxlink
Direct(h, first, secnd, ov, tl) ==
    IF hasTemplate(h, first) /\ hasTemplate(h, secnd)
    THEN LET h1 == TailForward(h, secnd, LastN(h[first].seq, tl))
         IN  TailReverse(h1, first, rc(Prefix(h1[secnd].seq, tl)))
    ELSE IF hasTemplate(h, first)
    THEN TailReverse(h, first, rc(Prefix(h[secnd].seq, ov)))
    ELSE IF hasTemplate(h, secnd)
    THEN TailForward(h, secnd, LastN(h[first].seq, ov))
    ELSE h

\* lines 625-680: one turn of the loop over the junctions
Junction ==
    /\ apc = "loop"
    /\ i < Len(f) - 1
    /\ LET first == f[i + 1]
           secnd == f[i + 2]
       IN  IF len(heap, secnd) <= maxlink
           THEN IF i + 3 > Len(f)
                THEN /\ apc' = "raised" /\ aerr' = "IndexError"
                     /\ UNCHANGED <<heap, f, i>>
                ELSE /\ heap' = Linker(heap, first, secnd, f[i + 3], overlap, tail_length)
                     /\ f' = [f EXCEPT ![i + 2] = empty]
                     /\ i' = i + 1
                     /\ UNCHANGED <<apc, aerr>>
           ELSE /\ heap' = Direct(heap, first, secnd, overlap, tail_length)
                /\ i' = i + 1
                /\ UNCHANGED <<apc, aerr, f>>
    /\ UNCHANGED <<dvars, caller, overlap, maxlink, empty, tail_length, result>>

\* pcr(forward_primer, reverse_primer, template): the product carries the tail
\* of each primer, the part before the bases that anneal to the template
FootOf(tmpl) == Min(Len(tmpl), FootLen)
pcr(o) ==
    [o EXCEPT !.seq = Prefix(o.forward_primer, Len(o.forward_primer) - FootOf(o.template))
                      \o o.template
                      \o rc(Prefix(o.reverse_primer,
                                   Len(o.reverse_primer) - FootOf(o.template)))]

\* lines 685-687: drop what is empty, amplify the Amplicons again
Finish ==
    /\ apc = "loop"
    /\ ~(i < Len(f) - 1)
    /\ LET kept == SelectSeq(f, LAMBDA id : len(heap, id) # 0)
       IN  result' = [k \in 1..Len(kept) |->
                         IF hasTemplate(heap, kept[k]) THEN pcr(heap[kept[k]])
                         ELSE heap[kept[k]]]
    /\ apc' = "done"
    /\ UNCHANGED <<dvars, heap, caller, f, overlap, maxlink, i, empty, tail_length, aerr>>

AsmNext ==
    \/ SanityCheck
    \/ CopyFragments
    \/ AbsorbEdges
    \/ Junction
    \/ Finish

\* ----------------------------------------------------- the specifications
DesignIdle ==
    /\ pc = "idle" /\ template = <<>> /\ fp = None /\ rp = None /\ target_tm = 0
    /\ fprimerc = 1 /\ rprimerc = 1 /\ saltc = 1 /\ limit = 1
    /\ args = [fp |-> None, rp |-> None, target_tm |-> 0]
    /\ footprint = <<>> /\ site = 0 /\ d = NoFrame /\ calls = <<>> /\ anneals = 0
    /\ products = {} /\ prod = None /\ err = "none"
AsmIdle ==
    /\ apc = "idle" /\ heap = <<>> /\ caller = <<>> /\ f = <<>> /\ overlap = 0
    /\ maxlink = 0 /\ i = 0 /\ empty = 0 /\ tail_length = 0 /\ result = <<>>
    /\ aerr = "none"

\* primer_design called once
InitDesign == DesignInit /\ AsmIdle
SpecDesign == InitDesign /\ [][DesignNext]_vars
\* assembly_fragments called once
InitAssembly == AsmInit /\ DesignIdle
SpecAssembly == InitAssembly /\ [][AsmNext]_vars
\* ------------------------------------------------------ claims: primer_design
\* the Tm design() computes for a candidate: formula(p.upper())
Tm1(x) == formula1(Upper(x))
\* p is source[:n] for the least n >= lo whose Tm, computed by tm, reaches t
ShortestReaching(p, src, lo, t, tm(_)) ==
    \E n \in lo..Max(lo, Len(src)) :
        /\ p = Prefix(src, n)
        /\ tm(p) >= t
        /\ \A m \in lo..(n - 1) : tm(Prefix(src, m)) < t
\* of p and p minus its last base, the one whose Tm is closer to t; the shorter on a tie
Closer(p, t, tm(_)) ==
    IF Abs(t - tm(p)) < Abs(t - tm(DropLast(p))) THEN p ELSE DropLast(p)

\* C1 as stated: when the growth loop has ended, p is the shortest prefix of the
\* source, among the prefixes of length >= limit, whose Tm is >= target_tm.
C1_ShortestFromLimit ==
    pc = "returned" => ShortestReaching(d.p, d.template, limit, d.target_tm, Tm1)

\* C1 amended: when the growth loop has ended and target_tm > 0, p is source[:n]
\* for the least n >= limit + 1 whose Tm is >= target_tm (the prefix of length
\* limit is never a candidate: when it already reaches the target, p is one base
\* longer); when target_tm <= 0 the loop does not run and p is source[:limit].
C1_ShortestFromLimitPlusOne ==
    pc = "returned" =>
        IF d.target_tm > 0
        THEN ShortestReaching(d.p, d.template, limit + 1, d.target_tm, Tm1)
        ELSE d.p = Prefix(d.template, limit) /\ d.length = limit
\* the loop ran more than once and ended on a prefix inside the source
C1_Witness ==
    /\ pc = "returned" /\ d.length >= limit + 2 /\ Len(d.p) = d.length
    /\ Tm1(DropLast(d.p)) < d.target_tm

\* C2 as stated: once the candidate is the whole source and its Tm is still below
\* target_tm, the call ends with an error instead of taking another turn.
C2_ExhaustedSourceRaises ==
    [][(pc = "design" /\ d.length > limit /\ d.length >= Len(d.template)
            /\ d.tmp < d.target_tm)
        => pc' = "raised"]_vars

\* C3 as stated: design() returns, of p and ps = p[:-1], the one whose Tm is
\* closer to target_tm, and ps when the two are equally close.
C3_ReturnsCloser ==
    pc = "returned" =>
        /\ d.ps = DropLast(d.p)
        /\ d.ret = Closer(d.p, d.target_tm, Tm1)

\* C4 as stated: with no primer given, both primers are designed to the caller's
\* target_tm: each is the shortest prefix (of the template, of its reverse
\* complement) reaching target_tm, or that prefix minus its last base.
Brackets(x, src, t) ==
    \E n \in limit..Max(limit, Len(src)) :
        /\ ShortestReaching(Prefix(src, n), src, limit, t, Tm1)
        /\ x \in {Prefix(src, n), DropLast(Prefix(src, n))}
C4_ForwardToTarget ==
    (args.fp = None /\ args.rp = None /\ Len(calls) >= 1)
        => Brackets(calls[1].ret, template, args.target_tm)
C4_BothToTarget ==
    (args.fp = None /\ args.rp = None /\ Len(calls) = 2)
        => /\ Brackets(calls[1].ret, template, args.target_tm)
           /\ Brackets(calls[2].ret, rc(template), args.target_tm)

TmReverse(x) == formula(Upper(x), rprimerc, saltc)
PickedBy(x, src, t, tm(_)) ==
    \E n \in (limit + 1)..Max(limit + 1, Len(src)) :
        /\ ShortestReaching(Prefix(src, n), src, limit + 1, t, tm)
        /\ x = Closer(Prefix(src, n), t, tm)
C6_TargetIsFootprintTm ==
    (site = 168 /\ pc = "returned")
        => d.target_tm = formula(footprint, fprimerc, saltc)
C6_ReverseAtReverseConcentration ==
    (site = 168 /\ pc = "returned")
        => /\ d.target_tm = formula(footprint, fprimerc, saltc)
           /\ PickedBy(d.ret, rc(template), d.target_tm, TmReverse)

\* C7: with both primers given the call raises the over-specified error, with no
\* search, no annealing and no amplicon; with fewer primers given that error
\* is never raised.
BothGiven == args.fp # None /\ args.rp # None
C7_BothPrimersRaise ==
    /\ (BothGiven /\ pc # "start") =>
          /\ pc = "raised" /\ err = OverSpecified
          /\ d = NoFrame /\ calls = <<>> /\ anneals = 0
          /\ products = {} /\ prod = None
    /\ ~BothGiven => err # OverSpecified
C7_Witness == pc = "raised" /\ err = OverSpecified /\ BothGiven

\* C8 as stated: an amplicon is returned only when the annealing gave exactly
\* one product.
C8_ExactlyOneProduct ==
    pc = "done" => Cardinality(products) = 1

\* ------------------------------------------------ claims: assembly_fragments
\* the fragment the caller passed at position k
Input(k) == heap[caller[k]]
Long(k) == Len(Input(k).seq) > maxlink
\* two fragments longer than maxlink, neither an Amplicon, with only short
\* fragments between them
BareJunction ==
    \E a, b \in 1..Len(caller) :
        /\ a < b /\ Long(a) /\ Long(b)
        /\ ~Input(a).amp /\ ~Input(b).amp
        /\ \A k \in (a + 1)..(b - 1) : ~Long(k)
\* the caller's objects are as they were made: no primer has a tail
Untouched ==
    \A k \in 1..Len(caller) :
        Input(k) = IF Input(k).amp THEN Amplicon(Input(k).seq)
                   ELSE Dseqrecord(Input(k).seq)

\* C9: the call raises the sanity error exactly when two fragments longer than
\* maxlink that follow each other (short ones skipped) are both no Amplicons,
\* and it raises it with every fragment and primer as passed.
C9_SanityErrorExact ==
    /\ apc # "check" => (aerr = SanityMessage <=> BareJunction)
    /\ aerr = SanityMessage =>
          /\ apc = "raised" /\ Untouched
          /\ f = caller /\ Len(heap) = Cardinality({caller[k] : k \in 1..Len(caller)})
\* the error is raised for two bare fragments with a short one between them
C9_Witness ==
    /\ apc = "raised" /\ aerr = SanityMessage
    /\ \E k \in 2..(Len(caller) - 1) : ~Long(k) /\ Long(k - 1) /\ Long(k + 1)

\* S: the input sequences joined in input order
RECURSIVE Joined(_)
Joined(k) == IF k = 0 THEN <<>> ELSE Joined(k - 1) \o Input(k).seq
\* the positions of S where result[1..k], laid out as windows of S that start at
\* 0 and leave no gap, can end
RECURSIVE WindowEnds(_)
WindowEnds(k) ==
    LET S == Joined(Len(caller))
        w == result[k].seq
    IN  {st + Len(w) :
            st \in {x \in 0..(Len(S) - Len(w)) :
                       /\ SubSeq(S, x + 1, x + Len(w)) = w
                       /\ IF k = 1 THEN x = 0 ELSE \E e \in WindowEnds(k - 1) : x <= e}}
\* C10 as stated: the returned sequences are windows of S, the first starts at 0,
\* the last ends at |S|, and each begins no later than the one before it ends.
C10_FusesToInput ==
    apc = "done" =>
        /\ Len(result) >= 1
        /\ Len(Joined(Len(caller))) \in WindowEnds(Len(result))

\* the number of bases the end of x and the start of y have in common: the
\* largest k with x[-k:] = y[:k]
Shared(x, y) ==
    LET ks == {k \in 0..Min(Len(x), Len(y)) :
                  SubSeq(x, Len(x) - k + 1, Len(x)) = Prefix(y, k)}
    IN  CHOOSE k \in ks : \A j \in ks : j <= k

\* C11: in the returned list, the end of each fragment and the start of the next
\* one share at least `overlap` identical bases, whatever the fragment lengths.
C11_JunctionsOverlap ==
    apc = "done" =>
        \A k \in 1..(Len(result) - 1) :
            Shared(result[k].seq, result[k + 1].seq) >= overlap

\* the input positions the returned fragments were copied from, in returned order
ResultPositions == [k \in 1..Len(result) |-> result[k].pos]
\* the returned fragment is the fragment passed at position p: the same template
\* for an Amplicon, the same sequence for anything else
SameFragment(r, p) ==
    /\ p \in 1..Len(caller)
    /\ r.amp = Input(p).amp
    /\ IF r.amp THEN r.template = Input(p).template ELSE r.seq = Input(p).seq

\* C12: the returned fragments are input fragments in their input order, none
\* twice and none inserted, and each input fragment that is missing from the
\* returned list is an edge or linker fragment no longer than maxlink.
C12_OrderKept ==
    apc = "done" =>
        /\ \A k \in 1..Len(result) : SameFragment(result[k], ResultPositions[k])
        /\ \A k \in 1..(Len(result) - 1) : ResultPositions[k] < ResultPositions[k + 1]
        /\ \A p \in 1..Len(caller) :
              (\A k \in 1..Len(result) : ResultPositions[k] # p) => ~Long(p)
\* a call that absorbed the first fragment and an inner linker
C12_Witness ==
    /\ apc = "done"
    /\ ~Long(1)
    /\ \E p \in 2..(Len(caller) - 1) :
          ~Long(p) /\ \A k \in 1..Len(result) : ResultPositions[k] # p
    /\ Len(result) = Len(caller) - 2

\* w occurs in x as a run of consecutive bases
Contains(x, w) ==
    \E st \in 0..(Len(x) - Len(w)) : SubSeq(x, st + 1, st + Len(w)) = w
\* the input fragment at position p is in the returned list
Returns(p) == \E k \in 1..Len(result) : ResultPositions[k] = p
\* the bases of the input fragment at position p are in a returned sequence, next
\* to a base of the fragment before or after it in S
Carried(p) ==
    LET S  == Joined(Len(caller))
        st == Len(Joined(p - 1))
        en == Len(Joined(p))
        spans == {<<st, en + 1>>, <<st - 1, en>>} \cap ((0..Len(S)) \X (0..Len(S)))
    IN  \E k \in 1..Len(result), w \in spans :
            Contains(result[k].seq, SubSeq(S, w[1] + 1, w[2]))

\* C13: a fragment exactly maxlink long is absorbed, wherever it stands in the
\* input: it is not returned and its bases are in a neighbour's sequence; a
\* fragment maxlink + 1 long is returned.
C13_MaxlinkBoundary ==
    apc = "done" =>
        \A p \in 1..Len(caller) :
            /\ Len(Input(p).seq) = maxlink => (~Returns(p) /\ Carried(p))
            /\ Len(Input(p).seq) = maxlink + 1 => Returns(p)

\* C14: when the first input fragment is no longer than maxlink, the first
\* returned fragment is the second input fragment and its forward primer is the
\* dropped fragment's sequence followed by the forward primer it came with,
\* nothing more; when the last input fragment is no longer than maxlink, the last
\* returned fragment is the one before it and its reverse primer is the reverse
\* complement of the dropped fragment followed by the reverse primer it came with.
C14_EdgeAbsorption ==
    LET n == Len(caller)
        m == Len(result)
    IN  apc = "done" =>
            /\ ~Long(1) =>
                  /\ m >= 1 /\ result[1].amp /\ ResultPositions[1] = 2
                  /\ result[1].forward_primer = Input(1).seq \o Input(2).forward_primer
            /\ ~Long(n) =>
                  /\ m >= 1 /\ result[m].amp /\ ResultPositions[m] = n - 1
                  /\ result[m].reverse_primer =
                         rc(Input(n).seq) \o Input(n - 1).reverse_primer
\* both edge fragments were absorbed and junctions were tailed after that
C14_Witness ==
    /\ apc = "done"
    /\ ~Long(1) /\ ~Long(Len(caller))
    /\ Len(caller) = MaxFrags /\ Len(result) = 2
    /\ overlap > 0
    /\ result[1].reverse_primer # Input(2).reverse_primer

\* C15: a first input fragment that is an Amplicon longer than maxlink is
\* returned first with the forward primer it came with, and a last input fragment
\* that is an Amplicon longer than maxlink is returned last with the reverse
\* primer it came with.
C15_LinearEnds ==
    LET n == Len(caller)
        m == Len(result)
    IN  apc = "done" =>
            /\ (Input(1).amp /\ Long(1)) =>
                  /\ m >= 1 /\ ResultPositions[1] = 1
                  /\ result[1].forward_primer = Input(1).forward_primer
            /\ (Input(n).amp /\ Long(n)) =>
                  /\ m >= 1 /\ ResultPositions[m] = n
                  /\ result[m].reverse_primer = Input(n).reverse_primer
\* a list that starts and ends with a long Amplicon, whose inner primers were tailed
C15_Witness ==
    /\ apc = "done"
    /\ Len(caller) >= 3
    /\ Input(1).amp /\ Long(1) /\ Input(Len(caller)).amp /\ Long(Len(caller))
    /\ result[1].reverse_primer # Input(1).reverse_primer
    /\ result[Len(result)].forward_primer # Input(Len(caller)).forward_primer

\* the last k bases of s, none when k = 0
Suffix(s, k) == SubSeq(s, Len(s) - Min(k, Len(s)) + 1, Len(s))
\* the heap after a direct junction between first and secnd as C16 states it
DirectAsStated(h, first, secnd, ov) ==
    IF h[first].amp /\ h[secnd].amp
    THEN [h EXCEPT ![secnd].forward_primer = Suffix(h[first].seq, Ceil2(ov)) \o @,
                   ![first].reverse_primer = rc(Prefix(h[secnd].seq, Ceil2(ov))) \o @]
    ELSE IF h[first].amp
    THEN [h EXCEPT ![first].reverse_primer = rc(Prefix(h[secnd].seq, ov)) \o @]
    ELSE IF h[secnd].amp
    THEN [h EXCEPT ![secnd].forward_primer = Suffix(h[first].seq, ov) \o @]
    ELSE h
\* the loop is at a direct junction of two fragments at least `overlap` long
AtDirectJunction ==
    /\ apc = "loop" /\ i < Len(f) - 1
    /\ len(heap, f[i + 2]) > maxlink
    /\ len(heap, f[i + 1]) >= overlap /\ len(heap, f[i + 2]) >= overlap

\* C16: at a direct junction of fragments at least `overlap` long, for every
\* overlap >= 0, two Amplicons gain ceil(overlap/2) bases each (secnd's forward
\* primer the end of first, first's reverse primer the reverse complement of the
\* start of secnd); a lone Amplicon gains `overlap` bases of its neighbour's end
\* on its junction-side primer; no other primer changes.
C16_DirectTails ==
    [][(AtDirectJunction /\ i' = i + 1) =>
           heap' = DirectAsStated(heap, f[i + 1], f[i + 2], overlap)]_vars

\* the loop is at a linker: secnd is no longer than maxlink and third exists
AtLinker ==
    /\ apc = "loop" /\ i < Len(f) - 1
    /\ len(heap, f[i + 2]) <= maxlink
    /\ i + 3 <= Len(f)
\* the length of each tail when a linker of n bases lies between two Amplicons
BridgeLength(n, ov) == Ceil2(ov) + (n - n \div 2)
\* the heap after a linker between the Amplicons first and third as C17 states it
BridgeAsStated(h, first, secnd, third, ov) ==
    LET k == BridgeLength(Len(h[secnd].seq), ov)
    IN  [h EXCEPT ![first].reverse_primer = rc(Prefix(h[secnd].seq \o h[third].seq, k)) \o @,
                  ![third].forward_primer = Suffix(h[first].seq \o h[secnd].seq, k) \o @]
\* position p of the input holds a linker between two Amplicons longer than maxlink
LinkerBetweenAmplicons(p) ==
    /\ 1 < p /\ p < Len(caller)
    /\ ~Long(p) /\ Long(p - 1) /\ Long(p + 1)
    /\ Input(p - 1).amp /\ Input(p + 1).amp

\* C17: a linker of n <= maxlink bases between two Amplicons gives each flanking
\* primer a tail of ceil(overlap/2) + (n - floor(n/2)) bases: first's reverse
\* primer the reverse complement of the start of secnd + third, third's forward
\* primer the end of first + secnd; the linker becomes the empty placeholder and
\* is not returned.
C17_LinkerBridged ==
    /\ [][(AtLinker /\ i' = i + 1 /\ heap[f[i + 1]].amp /\ heap[f[i + 3]].amp) =>
             LET first == f[i + 1]
                 secnd == f[i + 2]
                 third == f[i + 3]
                 k == BridgeLength(len(heap, secnd), overlap)
             IN  /\ heap' = BridgeAsStated(heap, first, secnd, third, overlap)
                 /\ Len(heap'[first].reverse_primer) = Len(heap[first].reverse_primer) + k
                 /\ Len(heap'[third].forward_primer) = Len(heap[third].forward_primer) + k
                 /\ f' = [f EXCEPT ![i + 2] = empty]
                 /\ len(heap', empty) = 0]_vars
    /\ [](apc = "done" => \A p \in 1..Len(caller) : LinkerBetweenAmplicons(p) => ~Returns(p))

\* the heap after a linker with an Amplicon on one side only, as C18 states it
OneSidedAsStated(h, first, secnd, third, ov) ==
    IF h[first].amp
    THEN [h EXCEPT ![first].reverse_primer =
                       rc(Prefix(h[third].seq, ov)) \o rc(h[secnd].seq) \o @]
    ELSE [h EXCEPT ![third].forward_primer =
                       Suffix(h[first].seq, ov) \o h[secnd].seq \o @]

\* C18: a linker with an Amplicon on one side only goes whole into that
\* Amplicon's primer, behind `overlap` bases of the fragment on the other side:
\* first's reverse primer becomes rc(third[:overlap]) + rc(secnd) + itself, or
\* third's forward primer becomes first[-overlap:] + secnd + itself; the other
\* fragment does not change.
C18_OneSidedLinker ==
    [][(AtLinker /\ i' = i + 1 /\ heap[f[i + 1]].amp # heap[f[i + 3]].amp) =>
           heap' = OneSidedAsStated(heap, f[i + 1], f[i + 2], f[i + 3], overlap)]_vars

\* the objects the caller passed
CallerObjects == {caller[k] : k \in 1..Len(caller)}
\* the same object was passed first and last, as in [a, b, c, a]
PassedTwice == Len(caller) >= 2 /\ caller[1] = caller[Len(caller)]

\* C19: at every point of a call, also one that raises, the caller's objects
\* have the primers they were passed with; after the copy the list holds no
\* caller's object and no object twice (the empty placeholder aside); an Amplicon
\* passed first and last is returned at both ends, the first copy with its own
\* forward primer and the last copy with its own reverse primer, so the tail of
\* one end is not on the other.
C19_OwnCopies ==
    /\ Untouched
    /\ apc \in {"edges", "loop", "done"} =>
          /\ \A k \in 1..Len(f) : f[k] \notin CallerObjects
          /\ \A j, k \in 1..Len(f) : (j # k /\ f[j] = f[k]) => (apc # "edges" /\ f[j] = empty)
    /\ (apc = "done" /\ PassedTwice /\ Input(1).amp /\ Long(1)) =>
          /\ ResultPositions[1] = 1 /\ ResultPositions[Len(result)] = Len(caller)
          /\ result[1].forward_primer = Input(1).forward_primer
          /\ result[Len(result)].reverse_primer = Input(1).reverse_primer
\* [a, b, a] or longer returned with a tail on each copy of a
C19_Witness ==
    /\ apc = "done" /\ PassedTwice /\ Input(1).amp /\ Long(1)
    /\ Len(caller) >= 3
    /\ result[1].reverse_primer # Input(1).reverse_primer
    /\ result[Len(result)].forward_primer # Input(1).forward_primer
    /\ result[1].reverse_primer # result[Len(result)].reverse_primer

====
